---- MODULE Spec2Model ----
(***************************************************************************)
(* Requisites validation engine (src/requisites.py).                       *)
(*                                                                         *)
(* A Python str is modelled as a sequence of one-character strings, so     *)
(* that slicing, isdigit(), int(), replace(), split() and the regular      *)
(* expression of the KPP check are computed character by character.        *)
(* "^2" stands for a character such as U+00B2 for which str.isdigit() is   *)
(* True and int() raises ValueError.                                       *)
(***************************************************************************)
EXTENDS Integers, Sequences, FiniteSets, TLC

VARIABLES
    cls,        \* the class validate is called on
    data,       \* the mapping the caller built and handed to validate: key -> value
    base,       \* the mapping before the caller's last single-digit change
    edit,       \* that change: the field and the 1-based position, or none
    nEdits,     \* number of changes the caller made to the sample mapping
    phase,      \* "input" | "done" | "redone"
    exc,        \* what the last validate call raised to the caller, or "none"
    message,    \* the message of that exception
    ran,        \* the steps the last validate call executed, in order
    output,     \* the mapping the last validate call returned
    prev,       \* the mapping returned by the first call, handed to the second
    combined,   \* a 23-character checksum input (prefix + account)
    nChanged    \* number of digits of combined changed so far

vars == <<cls, data, base, edit, nEdits, phase, exc, message, ran, output, prev,
          combined, nChanged>>

\* Number of changes the caller makes to a known-good mapping before validate.
MaxEdits == 1

\* Number of digits of the checksum input that are changed.
MaxChanged == 1

-----------------------------------------------------------------------------
(* Python str primitives *)

Digits == {"0", "1", "2", "3", "4", "5", "6", "7", "8", "9"}

UpperLetters ==
    {"A", "B", "C", "D", "E", "F", "G", "H", "I", "J", "K", "L", "M",
     "N", "O", "P", "Q", "R", "S", "T", "U", "V", "W", "X", "Y", "Z"}

DigitVal(c) ==
    CASE c = "0" -> 0 [] c = "1" -> 1 [] c = "2" -> 2 [] c = "3" -> 3
      [] c = "4" -> 4 [] c = "5" -> 5 [] c = "6" -> 6 [] c = "7" -> 7
      [] c = "8" -> 8 [] c = "9" -> 9

DigitChar(n) == <<"0", "1", "2", "3", "4", "5", "6", "7", "8", "9">>[n + 1]

\* The characters for which str.isdigit() is True: the decimal digits and
\* digit-like characters that int() does not convert.
DigitLike == Digits \cup {"^2"}

IsDigitChar(c) == c \in DigitLike

\* s.isdigit(): non-empty and every character a digit character.
isdigit(s) == Len(s) > 0 /\ \A i \in 1..Len(s) : IsDigitChar(s[i])

\* int(s) succeeds (s holds no sign, underscore or surrounding blanks here:
\* it is one character, or a slice of a string that passed isdigit()).
IntOk(s) == Len(s) > 0 /\ \A i \in 1..Len(s) : s[i] \in Digits

Min(a, b) == IF a < b THEN a ELSE b

Max(a, b) == IF a > b THEN a ELSE b

\* s[a:b] for 0 <= a, 0 <= b (Python slices clamp to the string).
Slice(s, a, b) == IF a >= Min(b, Len(s)) THEN <<>> ELSE SubSeq(s, a + 1, Min(b, Len(s)))

\* s[-n:]
LastN(s, n) == Slice(s, Max(Len(s) - n, 0), Len(s))

\* s[:-1]
ButLast(s) == Slice(s, 0, Len(s) - 1)

\* s.startswith(p)
StartsWith(s, p) == Len(s) >= Len(p) /\ SubSeq(s, 1, Len(p)) = p

\* int(s) % m for a string of decimal digits, digit by digit (the value itself
\* may exceed the model checker's integers; the remainder is the same).
RECURSIVE IntMod(_, _)
IntMod(s, m) ==
    IF s = <<>> THEN 0
    ELSE (IntMod(ButLast(s), m) * 10 + DigitVal(s[Len(s)])) % m

\* int(s) for a short string of decimal digits.
RECURSIVE IntVal(_)
IntVal(s) ==
    IF s = <<>> THEN 0 ELSE IntVal(ButLast(s)) * 10 + DigitVal(s[Len(s)])

\* The one-character string at which a left-to-right int() conversion of the
\* first n characters of s stops, or <<>> when every one converts.
FirstBad(s, n) ==
    LET bad == {i \in 1..Min(n, Len(s)) : s[i] \notin Digits}
    IN  IF bad = {} THEN <<>>
        ELSE <<s[CHOOSE i \in bad : \A j \in bad : i <= j]>>

\* sum(int(s[i]) * coefficients[i] for i in range(n))
RECURSIVE WeightedSum(_, _, _)
WeightedSum(s, coefficients, n) ==
    IF n = 0 THEN 0
    ELSE WeightedSum(s, coefficients, n - 1) + DigitVal(s[n]) * coefficients[n]

\* value.replace(" ", "")
\* value.replace(" ", "", 1): only the first space goes.
StripFirstSpace(s) ==
    IF \A i \in 1..Len(s) : s[i] # " " THEN s
    ELSE LET p == CHOOSE i \in 1..Len(s) : s[i] = " " /\ \A j \in 1..(i - 1) : s[j] # " "
         IN  SubSeq(s, 1, p - 1) \o SubSeq(s, p + 1, Len(s))

StripSpaces(s) == SelectSeq(s, LAMBDA ch : ch # " ")

\* s.split("."): the parts between the dots (always at least one part).
RECURSIVE Split(_)
Split(s) ==
    IF \A i \in 1..Len(s) : s[i] # "." THEN <<s>>
    ELSE LET d == CHOOSE i \in 1..Len(s) :
                      s[i] = "." /\ \A j \in 1..(i - 1) : s[j] # "."
         IN  <<SubSeq(s, 1, d - 1)>> \o Split(SubSeq(s, d + 1, Len(s)))

\* "".join(parts)
RECURSIVE Join(_)
Join(parts) == IF parts = <<>> THEN <<>> ELSE Head(parts) \o Join(Tail(parts))

-----------------------------------------------------------------------------
(* Values, and what a check returns or raises *)

Text(s) == [isText |-> TRUE, chars |-> s]

\* A value that is not a str (None, a number, ...).
NotText == [isText |-> FALSE, chars |-> <<>>]

Pass == [kind |-> "pass", text |-> "", arg |-> <<>>]

Fail(t) == [kind |-> "fail", text |-> t, arg |-> <<>>]

\* int() raising ValueError on string s.
BadInt(s) == [kind |-> "raise", text |-> "invalid literal for int() with base 10", arg |-> s]

-----------------------------------------------------------------------------
(* api.models.PartnerType: the members compare equal to their names. *)

PartnerType ==
    [OOO |-> <<"O", "O", "O">>,
     AO  |-> <<"A", "O">>,
     PAO |-> <<"P", "A", "O">>,
     ZAO |-> <<"Z", "A", "O">>,
     IP  |-> <<"I", "P">>,
     PRIVATE_INDIVIDUAL |->
        <<"P", "R", "I", "V", "A", "T", "E", "_", "I", "N", "D", "I", "V", "I", "D", "U", "A", "L">>]

-----------------------------------------------------------------------------
(* CommonRequisites *)

validate_inn(r) ==
    LET inn == r["inn"]
        t   == r["requisites_type"]
        two == Slice(inn, 0, 2)
    IN  IF ~isdigit(inn) THEN Fail("INN must only contain numbers.")
        ELSE IF ~IntOk(two) THEN BadInt(two)
        ELSE IF ~(1 <= IntVal(two) /\ IntVal(two) <= 92)
                /\ ~StartsWith(inn, <<"9", "9", "0", "9">>)
             THEN Fail("INN has invalid leading digits.")
        ELSE IF t \in {PartnerType.OOO, PartnerType.AO, PartnerType.PAO, PartnerType.ZAO}
             THEN IF Len(inn) # 10
                  THEN Fail("INN for legal entities must be 10 digits long.")
                  ELSE IF ~IntOk(inn) THEN BadInt(FirstBad(inn, 10))
                  ELSE IF DigitVal(inn[10])
                          # (WeightedSum(inn, <<2, 4, 10, 3, 5, 9, 4, 6, 8>>, 9) % 11) % 10
                       THEN Fail("INN has incorrect control number for a legal entity.")
                  ELSE Pass
        ELSE IF t \in {PartnerType.IP, PartnerType.PRIVATE_INDIVIDUAL}
             THEN IF Len(inn) # 12
                  THEN Fail("INN for private individuals or IP must be 12 digits long.")
                  ELSE IF ~IntOk(SubSeq(inn, 1, 11)) THEN BadInt(FirstBad(inn, 11))
                  ELSE IF DigitVal(inn[11])
                          # (WeightedSum(inn, <<7, 2, 4, 10, 3, 5, 9, 4, 6, 8>>, 10) % 11) % 10
                       THEN Fail("INN has incorrect control number for the 11th digit of private individual or IP.")
                  ELSE IF inn[12] \notin Digits THEN BadInt(<<inn[12]>>)
                  ELSE IF DigitVal(inn[12])
                          # (WeightedSum(inn, <<3, 7, 2, 4, 10, 3, 5, 9, 4, 6, 8>>, 11) % 11) % 10
                       THEN Fail("INN has incorrect control number for the 12th digit of private individual or IP.")
                  ELSE Pass
        ELSE Pass

\* validate_bik without the test of the first two digits.
validate_bik_any_prefix(r) ==
    LET bik == r["bik"]
    IN  IF ~isdigit(bik) THEN Fail("BIK must only contain numbers.")
        ELSE IF Len(bik) # 9 THEN Fail("BIK must be 9 digits long.")
        ELSE IF ~IntOk(Slice(bik, 6, Len(bik))) THEN BadInt(Slice(bik, 6, Len(bik)))
        ELSE IF ~(50 <= IntVal(Slice(bik, 6, Len(bik))) /\ IntVal(Slice(bik, 6, Len(bik))) <= 999)
             THEN Fail("BIK last 3 digits should be within 050 to 999.")
        ELSE Pass

validate_bik(r) ==
    LET bik == r["bik"]
    IN  IF ~isdigit(bik) THEN Fail("BIK must only contain numbers.")
        ELSE IF Len(bik) # 9 THEN Fail("BIK must be 9 digits long.")
        ELSE IF Slice(bik, 0, 2) # <<"0", "4">> THEN Fail("BIK first 2 digits must be '04'.")
        ELSE IF ~IntOk(Slice(bik, 6, Len(bik))) THEN BadInt(Slice(bik, 6, Len(bik)))
        ELSE IF ~(50 <= IntVal(Slice(bik, 6, Len(bik))) /\ IntVal(Slice(bik, 6, Len(bik))) <= 999)
             THEN Fail("BIK last 3 digits should be within 050 to 999.")
        ELSE Pass

\* [7, 1, 3] * 7 + [7, 1]
AccountCoefficients ==
    <<7, 1, 3, 7, 1, 3, 7, 1, 3, 7, 1, 3, 7, 1, 3, 7, 1, 3, 7, 1, 3, 7, 1>>

\* The bank-account sum with each term divided by 10 instead of reduced.
RECURSIVE BankChecksumDiv(_, _)
BankChecksumDiv(number, n) ==
    IF n = 0 THEN 0
    ELSE BankChecksumDiv(number, n - 1) + ((AccountCoefficients[n] * DigitVal(number[n])) \div 10)

\* sum((coefficient * int(digit)) % 10 for coefficient, digit in zip(...)):
\* zip stops at the shorter of the two.
RECURSIVE BankChecksum(_, _)
BankChecksum(number, n) ==
    IF n = 0 THEN 0
    ELSE BankChecksum(number, n - 1) + ((AccountCoefficients[n] * DigitVal(number[n])) % 10)

\* sum(coefficient * int(digit) for coefficient, digit in zip(...))
RECURSIVE CorrespondentChecksum(_, _)
CorrespondentChecksum(number, n) ==
    IF n = 0 THEN 0
    ELSE CorrespondentChecksum(number, n - 1) + AccountCoefficients[n] * DigitVal(number[n])

ZipLen(number) == Min(Len(AccountCoefficients), Len(number))

BankCombined(r) == LastN(r["bik"], 3) \o r["bank_account"]

CorrespondentCombined(r) == <<"0">> \o Slice(r["bik"], 4, 6) \o r["correspondent_account"]

validate_bank_account(r) ==
    LET account == r["bank_account"]
        number  == BankCombined(r)
    IN  IF ~isdigit(account) THEN Fail("Bank account can only consist of digits.")
        ELSE IF Len(account) # 20 THEN Fail("Bank account must consist of 20 digits.")
        ELSE IF ~IntOk(SubSeq(number, 1, ZipLen(number)))
             THEN BadInt(FirstBad(number, ZipLen(number)))
        ELSE IF BankChecksum(number, ZipLen(number)) % 10 = 0 THEN Pass
        ELSE Fail("Bank account has incorrect control number.")

validate_correspondent_account(r) ==
    LET account == r["correspondent_account"]
        number  == CorrespondentCombined(r)
    IN  IF ~isdigit(account)
        THEN Fail("Correspondent account can only consist of digits.")
        ELSE IF Len(account) # 20
             THEN Fail("Correspondent account must consist of 20 digits.")
        ELSE IF ~IntOk(SubSeq(number, 1, ZipLen(number)))
             THEN BadInt(FirstBad(number, ZipLen(number)))
        ELSE IF CorrespondentChecksum(number, ZipLen(number)) % 10 = 0 THEN Pass
        ELSE Fail("Correspondent account has incorrect control number.")

-----------------------------------------------------------------------------
(* EntityCommonRequisites *)

validate_okato(r) ==
    LET okato == r["okato"]
    IN  IF ~isdigit(okato) THEN Fail("OKATO must only contain digits.")
        ELSE IF ~(8 <= Len(okato) /\ Len(okato) <= 11)
             THEN Fail("OKATO must be from 8 to 11 digits long.")
        ELSE Pass

validate_okpo(r) ==
    LET okpo == r["okpo"]
    IN  IF ~isdigit(okpo) THEN Fail("OKPO must only contain digits.")
        ELSE IF Len(okpo) \notin {8, 10}
             THEN Fail("OKPO must be either 8 or 10 digits long.")
        ELSE Pass

validate_okved(r) ==
    LET okved == Split(r["okved"])
    IN  IF ~(\A i \in 1..Len(okved) : isdigit(okved[i]))
        THEN Fail("OKVED must only contain digits separated by '.'")
        ELSE IF ~(2 <= Len(Join(okved)) /\ Len(Join(okved)) <= 6)
             THEN Fail("OKVED must contain from 2 to 6 digits in total.")
        ELSE IF ~(\A i \in 1..Len(okved) : 1 <= Len(okved[i]) /\ Len(okved[i]) <= 2)
             THEN Fail("Each part of OKVED separated by '.' must contain one or two digits.")
        ELSE Pass

-----------------------------------------------------------------------------
(* IPRequisites *)

validate_ogrnip(r) ==
    LET ogrnip == r["ogrnip"]
    IN  IF ~isdigit(ogrnip) THEN Fail("OGRNIP must only contain digits.")
        ELSE IF Len(ogrnip) # 15 THEN Fail("OGRNIP must be 15 digits long.")
        ELSE IF ogrnip[1] = "0" THEN Fail("OGRNIP cannot start with zero.")
        ELSE IF ~IntOk(ButLast(ogrnip)) THEN BadInt(ButLast(ogrnip))
        ELSE IF ogrnip[15] \notin Digits THEN BadInt(<<ogrnip[15]>>)
        ELSE IF IntMod(ButLast(ogrnip), 13) % 10 # DigitVal(ogrnip[15])
             THEN Fail("OGRNIP has invalid control number.")
        ELSE Pass

-----------------------------------------------------------------------------
(* LegalEntityRequisites *)

\* ^[0-9]{4}[0-9A-Z]{2}[0-9]{3}$ on a string of 9 characters
KppPattern(s) ==
    /\ \A i \in {1, 2, 3, 4, 7, 8, 9} : s[i] \in Digits
    /\ \A i \in {5, 6} : s[i] \in Digits \/ s[i] \in UpperLetters

validate_kpp(r) ==
    LET kpp == r["kpp"]
    IN  IF Len(kpp) # 9
        THEN Fail("KPP must be of 9 chars (digits or latin capital letters)")
        ELSE IF ~KppPattern(kpp) THEN Fail("KPP has incorrect pattern.")
        ELSE [kind |-> "pass", text |-> "KPP is valid.", arg |-> <<>>]

validate_ogrn(r) ==
    LET ogrn == r["ogrn"]
    IN  IF ~isdigit(ogrn) THEN Fail("OGRN must only contain digits.")
        ELSE IF Len(ogrn) # 13 THEN Fail("OGRN must be 13 digits long.")
        ELSE IF ogrn[1] = "0" THEN Fail("OGRN cannot start with a zero.")
        ELSE IF ~IntOk(ButLast(ogrn)) THEN BadInt(ButLast(ogrn))
        ELSE IF ogrn[13] \notin Digits THEN BadInt(<<ogrn[13]>>)
        ELSE IF IntMod(ButLast(ogrn), 11) % 10 # DigitVal(ogrn[13])
             THEN Fail("OGRN has invalid control number.")
        ELSE Pass

-----------------------------------------------------------------------------
(* The class hierarchy: bases, dataclass fields, attribute names *)

Base(c) ==
    CASE c = "CommonRequisites" -> "Requisites"
      [] c = "EntityCommonRequisites" -> "CommonRequisites"
      [] c = "IPRequisites" -> "EntityCommonRequisites"
      [] c = "LegalEntityRequisites" -> "EntityCommonRequisites"

\* The fields a class declares itself, in declaration order.
OwnFields(c) ==
    CASE c = "Requisites" -> <<>>
      [] c = "CommonRequisites" ->
            <<"requisites_type", "requisites_name", "requisites_patronymic",
              "requisites_surname", "real_address", "inn", "bik", "bank_name",
              "correspondent_account", "bank_account">>
      [] c = "EntityCommonRequisites" ->
            <<"short_entity_name", "full_entity_name", "legal_address",
              "okved", "okpo", "okato">>
      [] c = "IPRequisites" -> <<"ogrnip">>
      [] c = "LegalEntityRequisites" -> <<"ogrn", "kpp">>

Classes ==
    {"Requisites", "CommonRequisites", "EntityCommonRequisites", "IPRequisites",
     "LegalEntityRequisites"}

\* The fields of a class, the bases' fields first.
RECURSIVE InheritedFields(_)
InheritedFields(c) ==
    IF c = "Requisites" THEN <<>> ELSE InheritedFields(Base(c)) \o OwnFields(c)

FieldTable == [c \in Classes |-> InheritedFields(c)]

\* dataclasses.fields(cls)
Fields(c) == FieldTable[c]

FieldSetTable == [c \in Classes |-> {Fields(c)[i] : i \in 1..Len(Fields(c))}]

FieldSet(c) == FieldSetTable[c]

ValidatePrefix == <<"v", "a", "l", "i", "d", "a", "t", "e", "_">>

Name_validate == <<"v", "a", "l", "i", "d", "a", "t", "e">>

Name_check_fields == <<"c", "h", "e", "c", "k", "_", "f", "i", "e", "l", "d", "s">>

Name_check_values == <<"c", "h", "e", "c", "k", "_", "v", "a", "l", "u", "e", "s">>

Name_from_dict == <<"f", "r", "o", "m", "_", "d", "i", "c", "t">>

Name_init == <<"_", "_", "i", "n", "i", "t", "_", "_">>

Name_validate_inn == ValidatePrefix \o <<"i", "n", "n">>

Name_validate_bik == ValidatePrefix \o <<"b", "i", "k">>

Name_validate_bank_account ==
    ValidatePrefix \o <<"b", "a", "n", "k", "_", "a", "c", "c", "o", "u", "n", "t">>

Name_validate_correspondent_account ==
    ValidatePrefix \o <<"c", "o", "r", "r", "e", "s", "p", "o", "n", "d", "e", "n", "t",
                        "_", "a", "c", "c", "o", "u", "n", "t">>

Name_validate_okato == ValidatePrefix \o <<"o", "k", "a", "t", "o">>

Name_validate_okpo == ValidatePrefix \o <<"o", "k", "p", "o">>

Name_validate_okved == ValidatePrefix \o <<"o", "k", "v", "e", "d">>

Name_validate_ogrnip == ValidatePrefix \o <<"o", "g", "r", "n", "i", "p">>

Name_validate_kpp == ValidatePrefix \o <<"k", "p", "p">>

Name_validate_ogrn == ValidatePrefix \o <<"o", "g", "r", "n">>

\* The methods a class defines itself.
OwnMethods(c) ==
    CASE c = "Requisites" ->
            {Name_check_fields, Name_check_values, Name_from_dict, Name_validate}
      [] c = "CommonRequisites" ->
            {Name_validate_inn, Name_validate_bik, Name_validate_bank_account,
             Name_validate_correspondent_account}
      [] c = "EntityCommonRequisites" ->
            {Name_validate_okato, Name_validate_okpo, Name_validate_okved}
      [] c = "IPRequisites" -> {Name_validate_ogrnip}
      [] c = "LegalEntityRequisites" -> {Name_validate_kpp, Name_validate_ogrn}

\* Only the methods the class defines itself.
MethodsOfClassOnly(c) == OwnMethods(c) \cup OwnMethods("Requisites")

\* The methods of a class, inherited ones included.
RECURSIVE Methods(_)
Methods(c) ==
    IF c = "Requisites" THEN OwnMethods(c) ELSE OwnMethods(c) \cup Methods(Base(c))

\* Code point order of the characters of an identifier ("_" sorts before "a").
IdentChars ==
    <<"_", "a", "b", "c", "d", "e", "f", "g", "h", "i", "j", "k", "l", "m",
      "n", "o", "p", "q", "r", "s", "t", "u", "v", "w", "x", "y", "z">>

Ord(ch) == CHOOSE i \in 1..Len(IdentChars) : IdentChars[i] = ch

\* a < b for Python strings
RECURSIVE StrLess(_, _)
StrLess(a, b) ==
    IF b = <<>> THEN FALSE
    ELSE IF a = <<>> THEN TRUE
    ELSE IF Head(a) = Head(b) THEN StrLess(Tail(a), Tail(b))
    ELSE Ord(Head(a)) < Ord(Head(b))

\* sorted(S)
RECURSIVE Sorted(_)
Sorted(S) ==
    IF S = {} THEN <<>>
    ELSE LET m == CHOOSE x \in S : \A y \in S \ {x} : StrLess(x, y)
         IN  <<m>> \o Sorted(S \ {m})

\* The definition-order listing of the method names, bases first (a listing
\* that is not sorted).
RECURSIVE DefinitionOrder(_)
DefinitionOrder(c) ==
    LET own == CASE c = "Requisites" -> <<Name_check_fields, Name_check_values,
                                          Name_from_dict, Name_validate>>
                 [] c = "CommonRequisites" ->
                        <<Name_validate_inn, Name_validate_bik,
                          Name_validate_bank_account, Name_validate_correspondent_account>>
                 [] c = "EntityCommonRequisites" ->
                        <<Name_validate_okato, Name_validate_okpo, Name_validate_okved>>
                 [] c = "IPRequisites" -> <<Name_validate_ogrnip>>
                 [] c = "LegalEntityRequisites" -> <<Name_validate_kpp, Name_validate_ogrn>>
    IN  IF c = "Requisites" THEN own ELSE DefinitionOrder(Base(c)) \o own

\* A listing in definition order.
DirUnsorted(c) == DefinitionOrder(c)

\* The attribute listing of each class (computed once: it depends on the
\* class alone).
DirTable == [c \in Classes |-> Sorted(Methods(c))]

\* dir(self), restricted to methods: the names in ascending order.
Dir(c) == DirTable[c]

\* getattr(self, method_name)()
Call(name, r) ==
    CASE name = Name_validate_inn -> validate_inn(r)
      [] name = Name_validate_bik -> validate_bik(r)
      [] name = Name_validate_bank_account -> validate_bank_account(r)
      [] name = Name_validate_correspondent_account -> validate_correspondent_account(r)
      [] name = Name_validate_okato -> validate_okato(r)
      [] name = Name_validate_okpo -> validate_okpo(r)
      [] name = Name_validate_okved -> validate_okved(r)
      [] name = Name_validate_ogrnip -> validate_ogrnip(r)
      [] name = Name_validate_kpp -> validate_kpp(r)
      [] name = Name_validate_ogrn -> validate_ogrn(r)

-----------------------------------------------------------------------------
(* Requisites: check_fields, check_values, from_dict, validate *)

NoError == [raised |-> "none", inner |-> "", text |-> "", arg |-> <<>>]

\* The attribute values of an instance as strings.
Attrs(instance) == [k \in DOMAIN instance |-> instance[k].chars]

\* check_fields(data): the first declared field whose value in data is not a str.
check_fields(c, d) ==
    LET bad == {i \in 1..Len(Fields(c)) : ~d[Fields(c)[i]].isText}
    IN  IF bad = {} THEN NoError
        ELSE [raised |-> "TypeError", inner |-> "",
              text |-> "field expected type is '<class 'str'>'",
              arg |-> <<Fields(c)[CHOOSE i \in bad : \A j \in bad : i <= j]>>]

\* The validate_ methods check_values calls, in the order it calls them.
CheckNames(c) == SelectSeq(Dir(c), LAMBDA n : StartsWith(n, ValidatePrefix))

\* check_values from the i-th method on: the methods run, and what was raised.
RECURSIVE RunChecks(_, _, _, _)
RunChecks(names, r, i, done) ==
    IF i > Len(names) THEN [error |-> NoError, ran |-> done]
    ELSE LET res == Call(names[i], r)
         IN  IF res.kind = "raise"
             THEN [error |-> [raised |-> "ValueError", inner |-> "",
                              text |-> res.text, arg |-> res.arg],
                   ran |-> Append(done, names[i])]
             ELSE IF res.kind = "fail"
             THEN [error |-> [raised |-> "ValueError", inner |-> "Validation failed: ",
                              text |-> res.text, arg |-> <<>>],
                   ran |-> Append(done, names[i])]
             ELSE RunChecks(names, r, i + 1, Append(done, names[i]))

check_values(c, instance) == RunChecks(CheckNames(c), Attrs(instance), 1, <<>>)

\* No key keeps its spaces.
no_keys_allow_spaces == {}

keys_to_allow_spaces ==
    {"real_address", "legal_address", "short_entity_name", "full_entity_name", "bank_name"}

cleaned_data(d) ==
    [k \in DOMAIN d |->
        IF d[k].isText /\ k \notin keys_to_allow_spaces
        THEN Text(StripSpaces(d[k].chars))
        ELSE d[k]]

\* cls(**cleaned_data): the generated __init__ rejects an unexpected keyword
\* first, then missing arguments (named in field order).
Construct(c, cleaned) ==
    LET extra   == DOMAIN cleaned \ FieldSet(c)
        missing == SelectSeq(Fields(c), LAMBDA f : f \notin DOMAIN cleaned)
    IN  IF extra # {}
        THEN [raised |-> "TypeError", inner |-> "",
              text |-> "__init__() got an unexpected keyword argument",
              arg |-> <<CHOOSE k \in extra : TRUE>>]
        ELSE IF missing # <<>>
        THEN [raised |-> "TypeError", inner |-> "",
              text |-> "__init__() missing required positional arguments",
              arg |-> missing]
        ELSE NoError

NoInstance == [k \in {} |-> NotText]

from_dict(c, d) ==
    LET cleaned == cleaned_data(d)
        made    == Construct(c, cleaned)
    IN  IF made.raised # "none"
        THEN [error |-> made, ran |-> <<Name_init>>, instance |-> NoInstance]
        ELSE LET typed == check_fields(c, d)
             IN  IF typed.raised # "none"
                 THEN [error |-> typed, ran |-> <<Name_init, Name_check_fields>>,
                       instance |-> NoInstance]
                 ELSE LET checked == check_values(c, cleaned)
                      IN  [error |-> checked.error,
                           ran |-> <<Name_init, Name_check_fields>> \o checked.ran,
                           instance |-> IF checked.error.raised = "none"
                                        THEN cleaned ELSE NoInstance]

\* except ValueError
CaughtValueErrorOnly == {"ValueError"}

\* except (ValueError, TypeError)
Caught == {"ValueError", "TypeError"}

NoMessage == [prefix |-> "", inner |-> "", text |-> "", arg |-> <<>>]

\* dataclasses.asdict(instance)
asdict(c, instance) == [k \in FieldSet(c) |-> instance[k]]

validate(c, d) ==
    LET made == from_dict(c, d)
    IN  IF made.error.raised = "none"
        THEN [exc |-> "none", message |-> NoMessage, ran |-> made.ran,
              output |-> asdict(c, made.instance)]
        ELSE IF made.error.raised \in Caught
        THEN [exc |-> "InvalidParamValueError",
              message |-> [prefix |-> "Validation error: ", inner |-> made.error.inner,
                           text |-> made.error.text, arg |-> made.error.arg],
              ran |-> made.ran, output |-> NoInstance]
        ELSE [exc |-> made.error.raised,
              message |-> [prefix |-> "", inner |-> made.error.inner,
                           text |-> made.error.text, arg |-> made.error.arg],
              ran |-> made.ran, output |-> NoInstance]

\* requisites_validators_map
requisites_validators_map ==
    [OOO |-> "LegalEntityRequisites", AO |-> "LegalEntityRequisites",
     ZAO |-> "LegalEntityRequisites", PAO |-> "LegalEntityRequisites",
     IP |-> "IPRequisites", PRIVATE_INDIVIDUAL |-> "CommonRequisites"]

-----------------------------------------------------------------------------
(* Known-good requisites, and the values a caller may put in their place *)

INN10 == <<"7", "7", "0", "7", "0", "8", "3", "8", "9", "3">>

INN12 == <<"5", "0", "0", "1", "0", "0", "7", "3", "2", "2", "5", "9">>

\* The requisites_type values a caller may send: the six tags and an unknown one.
TypeValues ==
    {PartnerType.OOO, PartnerType.AO, PartnerType.PAO, PartnerType.ZAO,
     PartnerType.IP, PartnerType.PRIVATE_INDIVIDUAL, <<"X", "X", "X">>}

\* A value of field f that passes its check, for requisites_type t.
SampleValue(f, t) ==
    CASE f = "requisites_type" -> t
      [] f = "requisites_name" -> <<"I">>
      [] f = "requisites_patronymic" -> <<"P">>
      [] f = "requisites_surname" -> <<"S">>
      [] f = "real_address" -> <<"M", " ", "1">>
      [] f = "inn" -> IF t \in {PartnerType.IP, PartnerType.PRIVATE_INDIVIDUAL}
                      THEN INN12 ELSE INN10
      [] f = "bik" -> <<"0", "4", "4", "5", "2", "5", "2", "2", "5">>
      [] f = "bank_name" -> <<"S", " ", "B">>
      [] f = "correspondent_account" ->
            <<"3", "0", "1", "0", "1", "8", "1", "0", "8", "4",
              "0", "0", "0", "0", "0", "0", "0", "2", "2", "5">>
      [] f = "bank_account" ->
            <<"4", "0", "7", "0", "2", "8", "1", "0", "8", "9",
              "0", "0", "0", "0", "0", "0", "0", "1", "2", "3">>
      [] f = "short_entity_name" -> <<"R", " ", "K">>
      [] f = "full_entity_name" -> <<"O", " ", "R">>
      [] f = "legal_address" -> <<"T", " ", "2">>
      [] f = "okved" -> <<"6", "2", ".", "0", "1">>
      [] f = "okpo" -> <<"0", "0", "0", "3", "2", "5", "3", "7">>
      [] f = "okato" -> <<"4", "5", "2", "8", "6", "5", "6", "0">>
      [] f = "ogrn" -> <<"1", "0", "2", "7", "7", "0", "0", "1", "3", "2", "1", "9", "5">>
      [] f = "ogrnip" ->
            <<"3", "0", "4", "5", "0", "0", "1", "1", "6", "0", "0", "0", "1", "5", "7">>
      [] f = "kpp" -> <<"7", "7", "0", "7", "A", "B", "0", "0", "1">>

Sample(c, t) == [f \in FieldSet(c) |-> Text(SampleValue(f, t))]

InsertAt(s, i, ch) == SubSeq(s, 1, i) \o <<ch>> \o SubSeq(s, i + 1, Len(s))

ReplaceAt(s, i, ch) == [s EXCEPT ![i] = ch]

\* Another last character: the next digit after a digit, "0" after anything else.
OtherLast(s) ==
    IF s[Len(s)] \in Digits
    THEN DigitChar((DigitVal(s[Len(s)]) + 1) % 10)
    ELSE "0"

\* Ways a caller gets a non-empty value s wrong (or merely writes it differently).
Perturb(s) ==
    {<<>>,
     <<" ">> \o s \o <<" ">>,
     InsertAt(s, Len(s) \div 2, " "),
     InsertAt(s, Len(s) \div 2, "\t"),
     s \o <<"\n">>,
     ButLast(s),
     s \o <<"0">>,
     ReplaceAt(s, Len(s), OtherLast(s)),
     ReplaceAt(s, 1, "0"),
     ReplaceAt(s, Len(s), "^2"),
     ReplaceAt(s, (Len(s) + 1) \div 2, "a")}

\* Further values of interest for a field.
Special(f) ==
    CASE f = "requisites_type" -> TypeValues \cup {<<"O", " ", "O", " ", "O">>}
      [] f = "inn" ->
            {INN10, INN12,
             <<"9", "9", "0", "9", "1", "2", "3", "4", "5", "4">>,
             <<"0", "0", "0", "7", "0", "8", "3", "8", "9", "3">>,
             <<"9", "3", "0", "7", "0", "8", "3", "8", "9", "3">>}
      [] f = "okved" ->
            {<<"6", "2", "0", "1", "0", "0">>,
             <<"6", "2", ".", "0", "1", ".", "1", "1">>,
             <<"6">>,
             <<"6", "2", ".", ".", "0", "1">>,
             <<"1", ".", "2", ".", "3", ".", "4", ".", "5", ".", "6", ".", "7">>}
      [] f = "kpp" ->
            {<<"7", "7", "0", "7", "a", "b", "0", "0", "1">>,
             <<"7", "7", "0", "7", "0", "1", "0", "0", "1">>}
      [] f = "okpo" -> {<<"0", "0", "3", "2", "5", "3", "7", "0", "0", "0">>}
      [] f = "okato" ->
            {<<"4", "5", "2", "8", "6", "5", "6", "0", "0", "0", "0">>,
             <<"4", "5", "2", "8", "6", "5", "6", "0", "0", "0", "0", "0">>}
      [] OTHER -> {}

\* The same value written with blanks, or left empty.
Blanked(s) ==
    {<<>>,
     <<" ">> \o s \o <<" ">>,
     InsertAt(s, Len(s) \div 2, "\t"),
     s \o <<"\n">>}

\* The fields some validate_ method reads.
CheckedFields ==
    {"requisites_type", "inn", "bik", "correspondent_account", "bank_account",
     "okved", "okpo", "okato", "ogrn", "ogrnip", "kpp"}

\* The values a caller may send for field f in place of the current one.
Candidates(f, current) ==
    {NotText}
    \cup {Text(s) : s \in Special(f)}
    \cup IF f = "requisites_type" \/ ~current.isText \/ current.chars = <<>>
         THEN {}
         ELSE IF f \in CheckedFields
         THEN {Text(s) : s \in Perturb(current.chars)}
         ELSE {Text(s) : s \in Blanked(current.chars)}

\* A key no class declares.
ExtraKeys == {"comment"}

NoEdit == [field |-> "", pos |-> 0]

SampleCombined == <<"2", "2", "5">> \o SampleValue("bank_account", PartnerType.OOO)

-----------------------------------------------------------------------------
(* The caller: builds a mapping, calls validate, may call it again on the result *)

\* The kinds the caller starts from, one for each class of the dispatch table
\* (the other legal-entity tags are sent by SetField).
Kinds == {"OOO", "IP", "PRIVATE_INDIVIDUAL"}

\* The caller picks a kind, the dispatch table gives the class, and the mapping
\* is known-good requisites whose requisites_type is the kind's tag or no tag
\* at all.
Init ==
    /\ \E kind \in Kinds :
          /\ cls = requisites_validators_map[kind]
          /\ \E t \in {PartnerType[kind], <<"X", "X", "X">>} : data = Sample(cls, t)
    /\ base = data
    /\ edit = NoEdit
    /\ nEdits = 0
    /\ phase = "input"
    /\ exc = "none"
    /\ message = NoMessage
    /\ ran = <<>>
    /\ output = NoInstance
    /\ prev = NoInstance
    /\ combined = SampleCombined
    /\ nChanged = 0

Unused == UNCHANGED <<combined, nChanged>>

NoCall == UNCHANGED <<phase, exc, message, ran, output, prev>>

\* The caller sends another value for key k.
SetField(k, v) ==
    /\ v # data[k]
    /\ data' = [data EXCEPT ![k] = v]
    /\ nEdits' = nEdits + 1
    /\ UNCHANGED <<cls, base, edit>>
    /\ NoCall
    /\ Unused

\* The caller leaves key k out.
DropKey(k) ==
    /\ data' = [j \in DOMAIN data \ {k} |-> data[j]]
    /\ nEdits' = nEdits + 1
    /\ UNCHANGED <<cls, base, edit>>
    /\ NoCall
    /\ Unused

\* The caller sends a key the class does not declare.
AddKey(k) ==
    /\ k \notin DOMAIN data
    /\ data' = [j \in DOMAIN data \cup {k} |-> IF j = k THEN Text(<<"x">>) ELSE data[j]]
    /\ nEdits' = nEdits + 1
    /\ UNCHANGED <<cls, base, edit>>
    /\ NoCall
    /\ Unused

\* The caller changes the digit at position i of field f to digit d.
MutateDigit(f, i, d) ==
    /\ data[f].chars[i] \in Digits
    /\ d # data[f].chars[i]
    /\ base' = data
    /\ data' = [data EXCEPT ![f] = Text(ReplaceAt(data[f].chars, i, d))]
    /\ edit' = [field |-> f, pos |-> i]
    /\ UNCHANGED <<cls, nEdits>>
    /\ NoCall
    /\ Unused

\* cls.validate(data)
Validate ==
    /\ phase = "input"
    /\ \E res \in {validate(cls, data)} :
           /\ exc' = res.exc
           /\ message' = res.message
           /\ ran' = res.ran
           /\ output' = res.output
    /\ phase' = "done"
    /\ UNCHANGED <<cls, data, base, edit, nEdits, prev>>
    /\ Unused

\* cls.validate(output): the caller validates the returned mapping again.
Revalidate ==
    /\ phase = "done"
    /\ exc = "none"
    /\ \E res \in {validate(cls, output)} :
           /\ exc' = res.exc
           /\ message' = res.message
           /\ ran' = res.ran
           /\ output' = res.output
    /\ prev' = output
    /\ phase' = "redone"
    /\ UNCHANGED <<cls, data, base, edit, nEdits>>
    /\ Unused

Editing == phase = "input" /\ nEdits < MaxEdits

Change ==
    Editing /\ \E k \in DOMAIN data : \E v \in Candidates(k, data[k]) : SetField(k, v)

Drop == Editing /\ \E k \in DOMAIN data : DropKey(k)

Add == Editing /\ \E k \in ExtraKeys : AddKey(k)

Next == Change \/ Drop \/ Add \/ Validate \/ Revalidate

Spec == Init /\ [][Next]_vars

-----------------------------------------------------------------------------
(* Single-digit changes to a mapping that validates *)

DigitFields == {"inn", "bik", "bank_account", "correspondent_account", "ogrn", "ogrnip"}

Mutate ==
    /\ phase = "input"
    /\ edit = NoEdit
    /\ \E f \in DigitFields \cap DOMAIN data :
        \E i \in 1..Len(data[f].chars) : \E d \in Digits : MutateDigit(f, i, d)

NextDigit == Mutate \/ Validate

SpecDigit == Init /\ [][NextDigit]_vars

-----------------------------------------------------------------------------
(* The two checksum reductions on arbitrary 23-digit numbers *)

SumBases ==
    {SampleCombined,
     <<"0", "2", "5">> \o SampleValue("correspondent_account", PartnerType.OOO),
     [i \in 1..23 |-> "0"],
     [i \in 1..23 |-> "9"]}

InitSum ==
    /\ cls = "CommonRequisites"
    /\ data = Sample(cls, PartnerType.PRIVATE_INDIVIDUAL)
    /\ base = data
    /\ edit = NoEdit
    /\ nEdits = 0
    /\ phase = "input"
    /\ exc = "none"
    /\ message = NoMessage
    /\ ran = <<>>
    /\ output = NoInstance
    /\ prev = NoInstance
    /\ combined \in SumBases
    /\ nChanged = 0

\* Another digit at position i of the number.
ChangeDigit(i, d) ==
    /\ nChanged < MaxChanged
    /\ combined[i] # d
    /\ combined' = ReplaceAt(combined, i, d)
    /\ nChanged' = nChanged + 1
    /\ UNCHANGED <<cls, data, base, edit, nEdits, phase, exc, message, ran, output, prev>>

NextSum == \E i \in 1..23 : \E d \in Digits : ChangeDigit(i, d)

SpecSum == InitSum /\ [][NextSum]_vars

-----------------------------------------------------------------------------
(* Properties *)

\* The mapping the last validate call was given.
Input == IF phase = "redone" THEN prev ELSE data

Called == phase # "input"

Succeeded == Called /\ exc = "none"

\* The attribute values the checks see for the last call's input.
NormalizedInput == Attrs(cleaned_data(Input))

FreeTextFields ==
    {"real_address", "legal_address", "short_entity_name", "full_entity_name", "bank_name"}

\* The checks each variant must have passed, its bases' checks included.
RequiredChecks(c) ==
    {Name_validate_inn, Name_validate_bik, Name_validate_bank_account,
     Name_validate_correspondent_account}
    \cup (IF c \in {"IPRequisites", "LegalEntityRequisites"}
          THEN {Name_validate_okato, Name_validate_okpo, Name_validate_okved}
          ELSE {})
    \cup (IF c = "IPRequisites" THEN {Name_validate_ogrnip} ELSE {})
    \cup (IF c = "LegalEntityRequisites" THEN {Name_validate_kpp, Name_validate_ogrn} ELSE {})

\* C1: validate returns a mapping only if every check of the variant, the
\* inherited ones included, passes on the normalized field values.
C1_SuccessMeansEveryCheckPasses ==
    Succeeded =>
        /\ DOMAIN Input = FieldSet(cls)
        /\ \A n \in RequiredChecks(cls) : Call(n, NormalizedInput).kind = "pass"

\* A LegalEntityRequisites mapping the caller changed and that still validates.
C1_Witness ==
    /\ phase = "done"
    /\ exc = "none"
    /\ cls = "LegalEntityRequisites"
    /\ nEdits = 1
    /\ Len(ran) = 11

\* C2: on success the returned mapping has the input's keys, every value is
\* the normalized input value, and the five free-text values are the raw ones.
C2_OutputIsNormalizedInput ==
    Succeeded =>
        /\ DOMAIN output = DOMAIN Input
        /\ \A k \in DOMAIN Input :
              /\ output[k] = cleaned_data(Input)[k]
              /\ k \in FreeTextFields => output[k] = Input[k]
              /\ output[k].isText

\* A successful call whose input has a space in a free-text value and a space
\* in another value.
C2_Witness ==
    /\ phase = "done"
    /\ exc = "none"
    /\ \E k \in DOMAIN data \cap FreeTextFields :
          \E i \in 1..Len(data[k].chars) : data[k].chars[i] = " "
    /\ \E k \in DOMAIN data \ FreeTextFields :
          \E i \in 1..Len(data[k].chars) : data[k].chars[i] = " "

\* s without the characters of set gone.
Without(s, gone) == SelectSeq(s, LAMBDA ch : ch \notin gone)

Whitespace == {" ", "\t", "\n"}

\* C3 as stated: on success every value outside the free-text fields is the
\* raw value with every whitespace character (space, tab, newline) removed.
C3_AllWhitespaceStripped ==
    Succeeded =>
        \A k \in DOMAIN Input \ FreeTextFields :
            /\ output[k].chars = Without(Input[k].chars, Whitespace)
            /\ \A i \in 1..Len(output[k].chars) : output[k].chars[i] \notin Whitespace

\* C3 as amended: on success every value outside the free-text fields is the
\* raw value with every space character removed; it holds no space.
C3_SpacesStripped ==
    Succeeded =>
        \A k \in DOMAIN Input \ FreeTextFields :
            /\ output[k].chars = Without(Input[k].chars, {" "})
            /\ \A i \in 1..Len(output[k].chars) : output[k].chars[i] # " "

\* A successful call whose input has a space in a value outside the free-text
\* fields.
C3_Witness ==
    /\ phase = "done"
    /\ exc = "none"
    /\ \E k \in DOMAIN data \ FreeTextFields :
          /\ \E i \in 1..Len(data[k].chars) : data[k].chars[i] = " "
          /\ output[k].chars # data[k].chars

\* C4: a failing call raises InvalidParamValueError and returns no mapping,
\* whatever failed.
C4_OnlyInvalidParamValueError ==
    (Called /\ exc # "none") =>
        /\ exc = "InvalidParamValueError"
        /\ output = NoInstance
        /\ message.prefix = "Validation error: "

\* The bank-account check met a BIK it cannot convert, and the caller saw
\* InvalidParamValueError.
C4_Witness ==
    /\ phase = "done"
    /\ exc = "InvalidParamValueError"
    /\ ran[Len(ran)] = Name_validate_bank_account
    /\ message.text = "invalid literal for int() with base 10"
    /\ "bik" \in DOMAIN data
    /\ data["bik"].isText
    /\ \E i \in 1..Len(data["bik"].chars) : data["bik"].chars[i] \notin Digits

\* C5: validating the output of a successful call succeeds and returns it.
C5_Idempotent == phase = "redone" => (exc = "none" /\ output = prev)

\* A second call on an output that differs from what the caller first sent.
C5_Witness == phase = "redone" /\ exc = "none" /\ prev # data

\* The INN is 10 decimal digits with the legal-entity control digit.
LegalInn(s) ==
    /\ Len(s) = 10
    /\ \A i \in 1..10 : s[i] \in Digits
    /\ DigitVal(s[10]) = (WeightedSum(s, <<2, 4, 10, 3, 5, 9, 4, 6, 8>>, 9) % 11) % 10

\* The INN is 12 decimal digits with the two control digits of individuals.
IndividualInn(s) ==
    /\ Len(s) = 12
    /\ \A i \in 1..12 : s[i] \in Digits
    /\ DigitVal(s[11]) = (WeightedSum(s, <<7, 2, 4, 10, 3, 5, 9, 4, 6, 8>>, 10) % 11) % 10
    /\ DigitVal(s[12]) = (WeightedSum(s, <<3, 7, 2, 4, 10, 3, 5, 9, 4, 6, 8>>, 11) % 11) % 10

\* C8 as stated: the INN rule is the one of the variant, whatever
\* requisites_type says: 10 digits for LegalEntityRequisites, 12 digits for
\* CommonRequisites and IPRequisites.
C8_InnRuleOfTheVariant ==
    Succeeded =>
        IF cls = "LegalEntityRequisites"
        THEN LegalInn(output["inn"].chars)
        ELSE IndividualInn(output["inn"].chars)

\* The order of the steps as the claim gives it.
ClaimedOrder(c) ==
    <<Name_init, Name_check_fields, Name_validate_bank_account, Name_validate_bik,
      Name_validate_correspondent_account, Name_validate_inn>>
    \o CASE c = "CommonRequisites" -> <<>>
         [] c = "IPRequisites" ->
                <<Name_validate_ogrnip, Name_validate_okato, Name_validate_okpo,
                  Name_validate_okved>>
         [] c = "LegalEntityRequisites" ->
                <<Name_validate_kpp, Name_validate_ogrn, Name_validate_okato,
                  Name_validate_okpo, Name_validate_okved>>

\* What a step of the pipeline does on the last call's input, taken alone.
StepError(step) ==
    IF step = Name_init THEN Construct(cls, cleaned_data(Input))
    ELSE IF step = Name_check_fields THEN check_fields(cls, Input)
    ELSE LET res == Call(step, NormalizedInput)
         IN  IF res.kind = "pass" THEN NoError
             ELSE [raised |-> "ValueError",
                   inner |-> IF res.kind = "fail" THEN "Validation failed: " ELSE "",
                   text |-> res.text, arg |-> res.arg]

\* C9: the steps run in the claimed order, every step before the last one run
\* passed, a call that fails stops at its first failing step and reports that
\* step's message, and a call that succeeds ran them all.
C9_FirstFailureStops ==
    Called =>
        /\ Len(ran) >= 1
        /\ Len(ran) <= Len(ClaimedOrder(cls))
        /\ ran = SubSeq(ClaimedOrder(cls), 1, Len(ran))
        /\ \A i \in 1..(Len(ran) - 1) : StepError(ran[i]).raised = "none"
        /\ IF exc = "none"
           THEN /\ Len(ran) = Len(ClaimedOrder(cls))
                /\ StepError(ran[Len(ran)]).raised = "none"
           ELSE LET failed == StepError(ran[Len(ran)])
                IN  /\ failed.raised # "none"
                    /\ message.inner = failed.inner
                    /\ message.text = failed.text
                    /\ message.arg = failed.arg

\* A call that stopped at a value check while a later check would fail too.
C9_Witness ==
    /\ phase = "done"
    /\ exc # "none"
    /\ Len(ran) >= 3
    /\ \E j \in (Len(ran) + 1)..Len(ClaimedOrder(cls)) :
          StepError(ClaimedOrder(cls)[j]).raised # "none"

\* The last call validated a mapping that differs from one that validates in
\* one digit of the named field.
DigitChanged(f) ==
    /\ phase = "done"
    /\ edit.field = f
    /\ validate(cls, base).exc = "none"

\* The control positions of the INN: the 10th digit of a 10-digit INN, the
\* 11th and 12th of a 12-digit one.
InnControl(s, pos) ==
    \/ Len(s) = 10 /\ pos = 10
    \/ Len(s) = 12 /\ pos \in {11, 12}

\* The call failed in the named check, which reported failure.
FailedIn(name) ==
    /\ exc # "none"
    /\ ran[Len(ran)] = name
    /\ message.inner = "Validation failed: "

\* C6 as stated: from a mapping that validates, another digit in a control
\* position of the INN, in the last position of the OGRN or OGRNIP, or anywhere
\* in the bank account or correspondent account makes validate fail with the
\* message of that field's check.
C6_ControlDigitChangeFails ==
    /\ (DigitChanged("inn") /\ InnControl(data["inn"].chars, edit.pos))
          => FailedIn(Name_validate_inn)
    /\ (DigitChanged("ogrn") /\ edit.pos = 13) => FailedIn(Name_validate_ogrn)
    /\ (DigitChanged("ogrnip") /\ edit.pos = 15) => FailedIn(Name_validate_ogrnip)
    /\ DigitChanged("bank_account") => FailedIn(Name_validate_bank_account)
    /\ DigitChanged("correspondent_account")
          => FailedIn(Name_validate_correspondent_account)

\* C7 as stated: from a mapping that validates, another digit anywhere in the
\* BIK makes validate fail with a message of the BIK check.
C7_AnyBikDigitChangeFails == DigitChanged("bik") => FailedIn(Name_validate_bik)

\* C7 as amended: another digit in the BIK makes validate fail when it is one of
\* the first two digits (the BIK check's message), the 5th or 6th (the
\* correspondent-account control message) or one of the last three (the
\* bank-account control message); another 3rd or 4th digit still validates.
C7_BikDigitChange ==
    DigitChanged("bik") =>
        CASE edit.pos \in {1, 2} ->
                /\ FailedIn(Name_validate_bik)
                /\ message.text = "BIK first 2 digits must be '04'."
          [] edit.pos \in {3, 4} ->
                /\ exc = "none"
                /\ output = data
          [] edit.pos \in {5, 6} ->
                /\ FailedIn(Name_validate_correspondent_account)
                /\ message.text = "Correspondent account has incorrect control number."
          [] edit.pos \in {7, 8, 9} ->
                /\ FailedIn(Name_validate_bank_account)
                /\ message.text = "Bank account has incorrect control number."

\* Another third digit in the BIK of a mapping that validates, and the call
\* succeeded.
C7_Witness == DigitChanged("bik") /\ edit.pos = 3 /\ exc = "none"

\* An instance whose bank-account check reads the 23 digits of combined.
AsBankAccount ==
    [bik |-> <<"0", "4", "4", "5", "2", "5">> \o SubSeq(combined, 1, 3),
     bank_account |-> SubSeq(combined, 4, 23)]

\* An instance whose correspondent-account check reads the 23 digits of
\* combined, which must start with "0".
AsCorrespondentAccount ==
    [bik |-> <<"0", "4", "4", "5">> \o SubSeq(combined, 2, 3) \o <<"2", "2", "5">>,
     correspondent_account |-> SubSeq(combined, 4, 23)]

\* C10: on every 23-digit number the two reductions give the same verdict, so
\* each check gives the verdict of the other one's reduction on its own number.
C10_ReductionsAgree ==
    /\ (BankChecksum(combined, 23) % 10 = 0) <=> (CorrespondentChecksum(combined, 23) % 10 = 0)
    /\ (validate_bank_account(AsBankAccount).kind = "pass")
          <=> (CorrespondentChecksum(combined, 23) % 10 = 0)
    /\ combined[1] = "0" =>
          ((validate_correspondent_account(AsCorrespondentAccount).kind = "pass")
              <=> (BankChecksum(combined, 23) % 10 = 0))

\* A number with a digit changed that passes, on which the two sums differ.
C10_Witness ==
    /\ nChanged = 1
    /\ BankChecksum(combined, 23) # CorrespondentChecksum(combined, 23)
    /\ BankChecksum(combined, 23) % 10 = 0
    /\ validate_bank_account(AsBankAccount).kind = "pass"

====
